---- MODULE Spec2Model ----
(***************************************************************************)
(* scripts/add-frontmatter.py: a batch tool that prepends a YAML front     *)
(* matter block to every Markdown file under a fixed docs root that does   *)
(* not have one.  Text is modelled as TLA+ strings, character by           *)
(* character; regular expressions, str methods and text-mode file I/O are  *)
(* modelled by what CPython does with them.                                *)
(***************************************************************************)
EXTENDS Integers, Sequences, FiniteSets, TLC

(***************************************************************************)
(* Characters and strings                                                  *)
(***************************************************************************)

\* s[i-1:j] of Python, 1-based and inclusive: a slice is clamped to the string.
Slice(s, i, j) ==
    SubSeq(s, IF i < 1 THEN 1 ELSE i, IF j > Len(s) THEN Len(s) ELSE j)

\* The i-th character of s (1-based) as a one-character string, "" off the end.
Char(s, i) == IF i \in 1..Len(s) THEN SubSeq(s, i, i) ELSE ""

\* s[i:] of Python, 1-based: the characters of s from position i on.
From(s, i) == SubSeq(s, i, Len(s))

\* Printable ASCII in code-point order, 32..95 and 97..126 (the grave accent,
\* 96, cannot be written in a TLA+ string and occurs in no text of the model).
AsciiLow == " !\"#$%&'()*+,-./0123456789:;<=>?@ABCDEFGHIJKLMNOPQRSTUVWXYZ[\\]^_"
AsciiHigh == "abcdefghijklmnopqrstuvwxyz{|}~"

\* ord(c) for the characters the model uses; 0 for the empty string, which
\* Char gives off the ends of a string.
Ord(c) ==
    IF c = "" THEN 0
    ELSE IF c = "\t" THEN 9
    ELSE IF c = "\n" THEN 10
    ELSE IF c = "\f" THEN 12
    ELSE IF c = "\r" THEN 13
    ELSE IF \E i \in 1..Len(AsciiLow) : Char(AsciiLow, i) = c
         THEN 31 + (CHOOSE i \in 1..Len(AsciiLow) : Char(AsciiLow, i) = c)
    ELSE 96 + (CHOOSE i \in 1..Len(AsciiHigh) : Char(AsciiHigh, i) = c)

\* The characters str.strip() removes and the regex class \s matches.
Whitespace == {" ", "\t", "\n", "\r", "\f"}

UpperLetters == "ABCDEFGHIJKLMNOPQRSTUVWXYZ"
LowerLetters == "abcdefghijklmnopqrstuvwxyz"

IsUpper(c) == \E i \in 1..Len(UpperLetters) : Char(UpperLetters, i) = c
IsLower(c) == \E i \in 1..Len(LowerLetters) : Char(LowerLetters, i) = c
IsCased(c) == IsUpper(c) \/ IsLower(c)

LowerChar(c) ==
    IF IsUpper(c)
    THEN Char(LowerLetters, CHOOSE i \in 1..Len(UpperLetters) : Char(UpperLetters, i) = c)
    ELSE c
UpperChar(c) ==
    IF IsLower(c)
    THEN Char(UpperLetters, CHOOSE i \in 1..Len(LowerLetters) : Char(LowerLetters, i) = c)
    ELSE c

\* The least and the greatest element of a non-empty set of integers.
Min(S) == CHOOSE a \in S : \A b \in S : a <= b
Max(S) == CHOOSE a \in S : \A b \in S : a >= b

\* The character-wise operators below split their range in halves, so that
\* their evaluation nests to the logarithm of the length of the text.

\* str.lower()
RECURSIVE Lower(_)
Lower(s) ==
    IF Len(s) = 0 THEN ""
    ELSE IF Len(s) = 1 THEN LowerChar(s)
    ELSE LET h == Len(s) \div 2
         IN  Lower(SubSeq(s, 1, h)) \o Lower(SubSeq(s, h + 1, Len(s)))

\* needle in hay (the substring test of Python)
Contains(hay, needle) ==
    \E i \in 1..(Len(hay) - Len(needle) + 1) :
        Slice(hay, i, i + Len(needle) - 1) = needle

\* str.startswith
StartsWith(s, p) == Len(s) >= Len(p) /\ SubSeq(s, 1, Len(p)) = p

\* str.strip(): s without its leading and trailing whitespace.
Strip(s) ==
    LET keep == {i \in 1..Len(s) : Char(s, i) \notin Whitespace}
    IN  IF keep = {} THEN "" ELSE SubSeq(s, Min(keep), Max(keep))

\* str.replace(old, new), for a single-character old.
RECURSIVE ReplaceChar(_, _, _)
ReplaceChar(s, old, new) ==
    IF Len(s) = 0 THEN ""
    ELSE IF Len(s) = 1 THEN (IF s = old THEN new ELSE s)
    ELSE LET h == Len(s) \div 2
         IN  ReplaceChar(SubSeq(s, 1, h), old, new)
                 \o ReplaceChar(SubSeq(s, h + 1, Len(s)), old, new)

\* str.replace(old, ""): every occurrence of old removed, found left to
\* right without overlap.
RECURSIVE RemoveAll(_, _)
RemoveAll(s, old) ==
    LET at == {i \in 1..(Len(s) - Len(old) + 1) : Slice(s, i, i + Len(old) - 1) = old}
    IN  IF at = {} THEN s
        ELSE SubSeq(s, 1, Min(at) - 1) \o RemoveAll(From(s, Min(at) + Len(old)), old)

\* str.title(), positions lo..hi of s: a cased character is upper-cased when
\* the character before it is not cased, lower-cased otherwise.
RECURSIVE TitleRange(_, _, _)
TitleRange(s, lo, hi) ==
    IF lo > hi THEN ""
    ELSE IF lo = hi
         THEN (IF IsCased(Char(s, lo - 1)) THEN LowerChar(Char(s, lo))
               ELSE UpperChar(Char(s, lo)))
    ELSE LET h == (lo + hi) \div 2
         IN  TitleRange(s, lo, h) \o TitleRange(s, h + 1, hi)
Title(s) == TitleRange(s, 1, Len(s))

\* re.sub(r'\s+', ' ', s), positions lo..hi of s: the first character of a
\* run of whitespace becomes one space, the rest of the run goes.
RECURSIVE CollapseRange(_, _, _)
CollapseRange(s, lo, hi) ==
    IF lo > hi THEN ""
    ELSE IF lo = hi
         THEN (IF Char(s, lo) \notin Whitespace THEN Char(s, lo)
               ELSE IF Char(s, lo - 1) \in Whitespace THEN "" ELSE " ")
    ELSE LET h == (lo + hi) \div 2
         IN  CollapseRange(s, lo, h) \o CollapseRange(s, h + 1, hi)
CollapseWhitespace(s) == CollapseRange(s, 1, Len(s))

\* a < b for str: by code point at the first position where they differ, a
\* proper prefix first.
StrLess(a, b) ==
    LET n == IF Len(a) < Len(b) THEN Len(a) ELSE Len(b)
        d == {i \in 1..n : Char(a, i) # Char(b, i)}
    IN  IF d = {} THEN Len(a) < Len(b)
        ELSE Ord(Char(a, Min(d))) < Ord(Char(b, Min(d)))

\* sorted(S) for a set of distinct strings.
RECURSIVE SortedStrings(_)
SortedStrings(S) ==
    IF S = {} THEN << >>
    ELSE LET m == CHOOSE x \in S : \A y \in S \ {x} : StrLess(x, y)
         IN  <<m>> \o SortedStrings(S \ {m})

\* sorted(xs) for a list of strings: insertion sort by StrLess.
RECURSIVE Insert(_, _)
Insert(x, xs) ==
    IF xs = << >> THEN <<x>>
    ELSE IF StrLess(Head(xs), x) THEN <<Head(xs)>> \o Insert(x, Tail(xs))
    ELSE <<x>> \o xs
RECURSIVE Sorted(_)
Sorted(xs) == IF xs = << >> THEN << >> ELSE Insert(Head(xs), Sorted(Tail(xs)))

\* The set of elements of a sequence.
Range(xs) == {xs[i] : i \in 1..Len(xs)}

\* Optional values: None is the empty sequence, Some(v) the sequence <<v>>.
None == << >>
Some(v) == <<v>>

(***************************************************************************)
(* Text-mode file I/O: open(filepath, 'r' / 'w', encoding='utf-8')         *)
(***************************************************************************)

\* Reading with newline=None (universal newlines), positions lo..hi of raw:
\* "\r\n" and a lone "\r" both arrive as "\n".
RECURSIVE ReadRange(_, _, _)
ReadRange(raw, lo, hi) ==
    IF lo > hi THEN ""
    ELSE IF lo = hi
         THEN (IF Char(raw, lo) = "\r" THEN "\n"
               ELSE IF Char(raw, lo) = "\n" /\ Char(raw, lo - 1) = "\r" THEN ""
               ELSE Char(raw, lo))
    ELSE LET h == (lo + hi) \div 2
         IN  ReadRange(raw, lo, h) \o ReadRange(raw, h + 1, hi)
ReadText(raw) == ReadRange(raw, 1, Len(raw))

\* os.linesep on the POSIX host the hard-coded docs root belongs to.
LineSep == "\n"

\* Writing with newline=None: every "\n" leaves as os.linesep.
WriteText(text) == ReplaceChar(text, "\n", LineSep)

\* The first position of s that holds a character of cs, 0 when none does.
FirstIndex(s, cs) ==
    IF \E i \in 1..Len(s) : Char(s, i) \in cs
    THEN CHOOSE i \in 1..Len(s) :
             Char(s, i) \in cs /\ \A j \in 1..(i - 1) : Char(s, j) \notin cs
    ELSE 0

\* f.readline() on a file just opened for reading: its first line, read
\* with universal newlines, so ended by the first "\n", "\r\n" or "\r" and
\* returned with "\n" in its place; all of the file when it holds no line end.
ReadLine(raw) ==
    LET e == FirstIndex(raw, {"\n", "\r"})
    IN  IF e = 0 THEN raw ELSE SubSeq(raw, 1, e - 1) \o "\n"

(***************************************************************************)
(* The functions of the script                                             *)
(***************************************************************************)

\* has_frontmatter in the variant "compare the line as read, unstripped".
has_frontmatter_unstripped(raw) == ReadLine(raw) = "---"

\* has_frontmatter(filepath), as a function of the bytes of the file.
has_frontmatter(raw) == Strip(ReadLine(raw)) = "---"

\* The positions where ^ matches under re.MULTILINE.
LineStarts(c) == {1} \cup {i + 1 : i \in {j \in 1..Len(c) : Char(c, j) = "\n"}}

\* The length of the run of characters of set cs that starts at position p.
RunLen(c, p, cs) ==
    LET stop == {i \in p..Len(c) : Char(c, i) \notin cs}
    IN  IF stop = {} THEN Len(c) - p + 1
        ELSE Min(stop) - p

\* The last position of the line that position q is on (before its "\n").
LineEnd(c, q) ==
    LET nl == {i \in q..Len(c) : Char(c, i) = "\n"}
    IN  IF nl = {} THEN Len(c) ELSE Min(nl) - 1

\* re.search(r'^#\s+(.+)$', content, re.MULTILINE): group(1) of the first
\* match, or None.  At a line start s holding "#", the greedy \s+ takes j
\* characters of the whitespace run, the largest j that leaves a character
\* other than "\n" for the greedy (.+), which then runs to the end of its line.
HeadingMatch(c) ==
    LET Js(s) == {j \in 1..RunLen(c, s + 1, Whitespace) :
                     s + 1 + j <= Len(c) /\ Char(c, s + 1 + j) # "\n"}
        starts == {s \in LineStarts(c) : s <= Len(c) /\ Char(c, s) = "#" /\ Js(s) # {}}
    IN  IF starts = {} THEN None
        ELSE LET s == Min(starts)
                 j == Max(Js(s))
                 q == s + 1 + j
             IN  Some(SubSeq(c, q, LineEnd(c, q)))

\* extract_title_from_heading(content)
extract_title_from_heading(content) ==
    LET m == HeadingMatch(content)
    IN  IF m = None THEN None ELSE Some(Strip(m[1]))

\* The positions where the closing alternative (?:\n\n|\n##) matches.
Terminators(c) ==
    {t \in 1..Len(c) : /\ Char(c, t) = "\n"
                       /\ \/ Char(c, t + 1) = "\n"
                          \/ Slice(c, t + 1, t + 2) = "##"}

\* re.search(r'^(?:#.*?\n+)?(.+?)(?:\n\n|\n##)', content,
\*           re.MULTILINE | re.DOTALL): group(1) of the first match, or None.
\* The lazy (.+?) that starts at q ends just before the first terminator
\* after q, so it can match from q exactly when q is before the last
\* terminator.  At a line start s the optional group is tried first: "#",
\* the lazy .*? up to the first "\n" at a position p from which \n+ and
\* (.+?) can still match (DOTALL lets .*? run over newlines), then the
\* greedy \n+ over as many "\n" from p as leave (.+?) a match.  The group is
\* skipped when there is no such p.
DescriptionMatch(c) ==
    LET T == Terminators(c)
        last == IF T = {} THEN 0 ELSE Max(T)
        Group(q) == SubSeq(c, q, Min({t \in T : t > q}) - 1)
        P(s) == IF s <= Len(c) /\ Char(c, s) = "#"
                THEN {p \in (s + 1)..Len(c) : Char(c, p) = "\n" /\ last > p + 1}
                ELSE {}
        starts == {s \in LineStarts(c) : last > s}
    IN  IF starts = {} THEN None
        ELSE LET s == Min(starts)
             IN  IF P(s) # {}
                 THEN LET p == Min(P(s))
                          run == RunLen(c, p, {"\n"})
                          j == IF run < last - p - 1 THEN run ELSE last - p - 1
                      IN  Some(Group(p + j))
                 ELSE Some(Group(s))

\* METADATA_MAP: the curated entries, keyed by path relative to the docs root.
METADATA_MAP ==
    [p \in {"adr/002-three-tier-hierarchy.md", "adr/003-gcp-cloud-run-infrastructure.md",
            "adr/004-zone-based-access-control.md", "adr/005-nip-44-encryption-mandate.md",
            "adr/006-client-side-wasm-search.md", "adr/007-sveltekit-ndk-frontend.md",
            "adr/008-postgresql-relay-storage.md", "adr/009-user-registration-flow.md"} |->
     CASE p = "adr/002-three-tier-hierarchy.md" ->
            [title |-> "ADR-002: Three-Tier BBS Hierarchy",
             description |-> "Decision to use three-tier hierarchy (Zone/Section/Forum) for BBS organization",
             category |-> "reference",
             tags |-> <<"adr", "architecture", "nostr", "channels", "design">>,
             difficulty |-> "advanced"]
       [] p = "adr/003-gcp-cloud-run-infrastructure.md" ->
            [title |-> "ADR-003: GCP Cloud Run Infrastructure",
             description |-> "Decision to deploy relay on Google Cloud Run with PostgreSQL storage",
             category |-> "reference",
             tags |-> <<"adr", "deployment", "gcp", "infrastructure", "devops">>,
             difficulty |-> "advanced"]
       [] p = "adr/004-zone-based-access-control.md" ->
            [title |-> "ADR-004: Zone-Based Access Control",
             description |-> "Decision to implement zone-based cohort access control using admin whitelists",
             category |-> "reference",
             tags |-> <<"adr", "security", "access-control", "zones", "admin">>,
             difficulty |-> "advanced"]
       [] p = "adr/005-nip-44-encryption-mandate.md" ->
            [title |-> "ADR-005: NIP-44 Encryption Mandate",
             description |-> "Decision to mandate NIP-44 encryption for all new encrypted content",
             category |-> "reference",
             tags |-> <<"adr", "security", "encryption", "nostr", "nip-44">>,
             difficulty |-> "advanced"]
       [] p = "adr/006-client-side-wasm-search.md" ->
            [title |-> "ADR-006: Client-Side WASM Search",
             description |-> "Decision to implement client-side semantic search using WASM and HNSW indexing",
             category |-> "reference",
             tags |-> <<"adr", "search", "wasm", "performance", "pwa">>,
             difficulty |-> "advanced"]
       [] p = "adr/007-sveltekit-ndk-frontend.md" ->
            [title |-> "ADR-007: SvelteKit + NDK Frontend",
             description |-> "Decision to use SvelteKit with NDK for frontend development",
             category |-> "reference",
             tags |-> <<"adr", "architecture", "frontend", "svelte", "ndk">>,
             difficulty |-> "intermediate"]
       [] p = "adr/008-postgresql-relay-storage.md" ->
            [title |-> "ADR-008: PostgreSQL Relay Storage",
             description |-> "Decision to use PostgreSQL for relay event storage with strfry",
             category |-> "reference",
             tags |-> <<"adr", "database", "postgresql", "relay", "storage">>,
             difficulty |-> "advanced"]
       [] p = "adr/009-user-registration-flow.md" ->
            [title |-> "ADR-009: User Registration Flow",
             description |-> "Decision on simplified user registration with password-based key derivation",
             category |-> "reference",
             tags |-> <<"adr", "authentication", "user", "registration", "security">>,
             difficulty |-> "intermediate"]]

\* infer_category(filepath): the first match of the priority list over the
\* lower-cased str(filepath).
infer_category(filepath) ==
    LET path_str == Lower(filepath)
    IN  IF Contains(path_str, "tutorial") \/ Contains(path_str, "getting-started")
          THEN "tutorial"
        ELSE IF Contains(path_str, "howto") \/ Contains(path_str, "guide")
          THEN "howto"
        ELSE IF Contains(path_str, "reference") \/ Contains(path_str, "api")
                  \/ Contains(path_str, "adr")
          THEN "reference"
        ELSE IF Contains(path_str, "explanation") \/ Contains(path_str, "architecture")
                  \/ Contains(path_str, "ddd")
          THEN "explanation"
        ELSE IF Contains(path_str, "user") THEN "tutorial"
        ELSE IF Contains(path_str, "developer") THEN "reference"
        ELSE "reference"

\* infer_tags, lines 118-164: the set the substring rules build from the
\* path and the title (None for a missing title).
heuristic_tags(filepath, title) ==
    LET path_str == Lower(filepath)
        title_lower == IF title # None /\ title[1] # "" THEN Lower(title[1]) ELSE ""
        InPath(w) == Contains(path_str, w)
        InTitle(w) == Contains(title_lower, w)
        Rule(cond, tag) == IF cond THEN {tag} ELSE {}
    IN  Rule(InPath("user"), "user")
          \cup Rule(InPath("developer") \/ InPath("dev"), "developer")
          \cup Rule(InPath("admin"), "admin")
          \cup Rule(InPath("nostr") \/ InTitle("nostr"), "nostr")
          \cup Rule(InPath("auth") \/ InTitle("auth"), "authentication")
          \cup Rule(InPath("message") \/ InPath("dm"), "messaging")
          \cup Rule(InPath("channel") \/ InPath("chat"), "channels")
          \cup Rule(InPath("security") \/ InTitle("security"), "security")
          \cup Rule(InPath("deploy"), "deployment")
          \cup Rule(InPath("adr"), "adr")
          \cup Rule(InPath("architecture") \/ InTitle("architecture"), "architecture")
          \cup Rule(InPath("ddd"), "ddd")
          \cup Rule(InPath("guide") \/ InTitle("guide"), "guide")
          \cup Rule(InPath("reference") \/ InPath("api"), "reference")
          \cup Rule(InPath("calendar") \/ InPath("event"), "calendar")
          \cup Rule(InPath("search"), "search")
          \cup Rule(InPath("zone"), "zones")
          \cup Rule(InPath("pwa"), "pwa")

\* infer_tags, lines 167-168: if len(tags) == 0: tags.add('documentation')
add_documentation(tags) ==
    IF Cardinality(tags) = 0 THEN tags \cup {"documentation"} ELSE tags

\* infer_tags, lines 169-170: if len(tags) == 1: tags.add('guide'), on the set
\* as the empty check left it.
add_guide(tags) ==
    IF Cardinality(tags) = 1 THEN tags \cup {"guide"} ELSE tags

\* infer_tags with the size-one check as the elif of the empty check: at most
\* one of the two adds a tag.
infer_tags_exclusive(filepath, title) ==
    LET h == heuristic_tags(filepath, title)
    IN  SortedStrings(IF Cardinality(h) = 0 THEN add_documentation(h) ELSE add_guide(h))

\* infer_tags(filepath, title)
infer_tags(filepath, title) ==
    SortedStrings(add_guide(add_documentation(heuristic_tags(filepath, title))))

\* infer_difficulty(filepath): None when no rule matches.
infer_difficulty(filepath) ==
    LET path_str == Lower(filepath)
    IN  IF Contains(path_str, "user") \/ Contains(path_str, "getting-started")
          THEN Some("beginner")
        ELSE IF Contains(path_str, "adr") \/ Contains(path_str, "architecture")
                  \/ Contains(path_str, "ddd")
          THEN Some("advanced")
        ELSE IF Contains(path_str, "developer") THEN Some("intermediate")
        ELSE None

\* The docs root hard-coded in main and in create_frontmatter.
DocsDir == "/home/devuser/workspace/project2/docs"

\* docs_dir / rel, as str(md_file)
PathOf(rel) == DocsDir \o "/" \o rel

\* md_file.relative_to(docs_dir), as a str
RelativeTo(filepath, dir) == From(filepath, Len(dir) + 2)

\* filepath.stem: the last component without its last suffix; a name whose
\* only dot is its first or last character has no suffix.
Stem(filepath) ==
    LET slashes == {i \in 1..Len(filepath) : Char(filepath, i) = "/"}
        name == IF slashes = {} THEN filepath ELSE From(filepath, Max(slashes) + 1)
        dots == {i \in 1..Len(name) : Char(name, i) = "."}
    IN  IF dots # {} /\ Max(dots) > 1 /\ Max(dots) < Len(name)
        THEN SubSeq(name, 1, Max(dots) - 1) ELSE name

\* The limit of the slice [:200] on an extracted description.
DescLimit == 200

\* create_frontmatter, line 189, in the variant "strip the root without
\* its trailing slash", which leaves a leading "/" on the key.
relative_path_keep_slash(filepath) == RemoveAll(filepath, DocsDir)

\* create_frontmatter, line 189: the key looked up in METADATA_MAP.
relative_path(filepath) == RemoveAll(filepath, DocsDir \o "/")

\* create_frontmatter, lines 189-215: the metadata of the block; difficulty is
\* None or Some(level).
Metadata(filepath, content) ==
    IF relative_path(filepath) \in DOMAIN METADATA_MAP
    THEN LET meta == METADATA_MAP[relative_path(filepath)]
         IN  [title |-> meta.title, description |-> meta.description,
              category |-> meta.category, tags |-> meta.tags,
              difficulty |-> Some(meta.difficulty)]
    ELSE LET heading == extract_title_from_heading(content)
             title == IF heading # None /\ heading[1] # "" THEN heading[1]
                      ELSE Title(ReplaceChar(ReplaceChar(Stem(filepath), "-", " "), "_", " "))
             desc_match == DescriptionMatch(content)
         IN  [title |-> title,
              description |->
                  IF desc_match # None
                  THEN Slice(CollapseWhitespace(Strip(desc_match[1])), 1, DescLimit)
                  ELSE title \o " documentation",
              category |-> infer_category(filepath),
              tags |-> infer_tags(filepath, Some(title)),
              difficulty |-> infer_difficulty(filepath)]

\* f"{tags}": the repr of a list of str, here free of quotes and backslashes.
RECURSIVE ReprItems(_)
ReprItems(tags) ==
    IF tags = << >> THEN ""
    ELSE "'" \o Head(tags) \o "'"
             \o (IF Len(tags) > 1 THEN ", " ELSE "") \o ReprItems(Tail(tags))
ListRepr(tags) == "[" \o ReprItems(tags) \o "]"

\* create_frontmatter, lines 218-229: the block rendered from the metadata;
\* today is date.today().isoformat().
Render(meta, today) ==
    "---\n"
      \o "title: \"" \o meta.title \o "\"\n"
      \o "description: \"" \o meta.description \o "\"\n"
      \o "category: " \o meta.category \o "\n"
      \o "tags: " \o ListRepr(meta.tags) \o "\n"
      \o (IF meta.difficulty # None /\ meta.difficulty[1] # ""
          THEN "difficulty: " \o meta.difficulty[1] \o "\n" ELSE "")
      \o "last-updated: " \o today \o "\n"
      \o "---\n\n"

\* create_frontmatter(filepath, content): the block it returns, text, and the
\* metadata it rendered it from, meta.
create_frontmatter(filepath, content, today) ==
    LET meta == Metadata(filepath, content)
    IN  [meta |-> meta, text |-> Render(meta, today)]

\* add_frontmatter_to_file in the variant "write content + frontmatter".
add_frontmatter_to_file_appending(filepath, raw, today) ==
    IF has_frontmatter(raw)
    THEN [updated |-> FALSE, raw |-> raw, rendered |-> None]
    ELSE LET content == ReadText(raw)
             frontmatter == create_frontmatter(filepath, content, today)
         IN  [updated |-> TRUE,
              raw |-> WriteText(content \o frontmatter.text),
              rendered |-> Some(frontmatter)]

\* add_frontmatter_to_file(filepath), as a function of the bytes of the file
\* and the date: whether it rewrote the file, the bytes the file holds
\* afterwards, and the metadata and the block it rendered.
add_frontmatter_to_file(filepath, raw, today) ==
    IF has_frontmatter(raw)
    THEN [updated |-> FALSE, raw |-> raw, rendered |-> None]
    ELSE LET content == ReadText(raw)
             frontmatter == create_frontmatter(filepath, content, today)
         IN  [updated |-> TRUE,
              raw |-> WriteText(frontmatter.text \o content),
              rendered |-> Some(frontmatter)]

\* main, lines 259-264: the lines printed after the loop.  A console line is
\* modelled by its kind and its variable part.
RECURSIVE ItemLines(_)
ItemLines(files) ==
    IF files = << >> THEN << >>
    ELSE <<[kind |-> "item", text |-> Head(files)]>> \o ItemLines(Tail(files))

\* The report in the variant "list in the order updated, unsorted".
Report_unsorted(updated) ==
    <<[kind |-> "count", n |-> Len(updated)]>>
      \o (IF updated # << >>
          THEN <<[kind |-> "header"]>> \o ItemLines(updated)
          ELSE << >>)

Report(updated) ==
    <<[kind |-> "count", n |-> Len(updated)]>>
      \o (IF updated # << >>
          THEN <<[kind |-> "header"]>> \o ItemLines(Sorted(updated))
          ELSE << >>)

(***************************************************************************)
(* Bounds and inputs                                                       *)
(***************************************************************************)

\* main is run at most MaxRuns times over the same tree.
MaxRuns == 2
\* The long sample texts exceed the description limit by at most MaxOver.
MaxOver == 1
\* The sample paths given to infer_tags have at most MaxSegs components.
MaxSegs == 2

\* n copies of s
RECURSIVE Rep(_, _)
Rep(s, n) ==
    IF n <= 0 THEN ""
    ELSE IF n = 1 THEN s
    ELSE Rep(s, n \div 2) \o Rep(s, n - (n \div 2))

\* The Markdown files the tree may hold, by path relative to the docs root:
\* a curated one, one in an audience folder, one whose relative path holds
\* none of the keywords of the inference rules.
PoolFiles ==
    {"adr/002-three-tier-hierarchy.md", "developer/auth-setup.md", "notes/misc.md"}

\* The bytes a file may hold at the start: nothing; a front matter block; a
\* first line that is the delimiter between spaces, with CRLF line ends; a
\* heading and a paragraph; a first line of four dashes and a heading, with
\* two spaces in it, that is too long for a description, and no paragraph;
\* a heading and a paragraph longer than the limit, with CRLF line ends.
SampleContents ==
    {"",
     "---\ntitle: \"Old\"\n---\nBody\n",
     " --- \r\nkept as it is\r\n",
     "# Auth Setup\n\nHow to\n sign in.\n\n## Steps\n",
     "----\n# A  " \o Rep("X", DescLimit + MaxOver - Len("A   documentation")) \o "\n",
     "# T\r\n\r\n" \o Rep("word ", DescLimit \div 5) \o Rep("y", MaxOver) \o "\r\n\r\nend\r\n"}

\* The values date.today().isoformat() may have.
Dates == {"2026-11-01", "2026-11-02"}

(***************************************************************************)
(* State                                                                   *)
(***************************************************************************)

VARIABLES
    fs,             \* the docs tree: relative path of a .md file -> its bytes
    pc,             \* "loop": main is in its for loop; "done": main returned;
                    \* "idle": main is not run (the function-level specification)
    pending,        \* the files docs_dir.rglob('*.md') has yet to yield
    updated_files,  \* main's list updated_files
    out,            \* the console: the lines printed by this run
    today,          \* the date of this run
    run,            \* the number of this run of main
    start,          \* history: the tree as this run found it
    visited,        \* history: the files in the order rglob yielded them
    written,        \* history: the files in the order this run wrote them
    rendered,       \* history: per file, what this run rendered for it
    args,           \* the arguments of a direct call of infer_tags
    call            \* history: what that call computed

vars == <<fs, pc, pending, updated_files, out, today, run, start, visited,
          written, rendered, args, call>>

\* The trees main may find: any of the pool files, each with any sample content.
Trees == UNION {[t -> SampleContents] : t \in SUBSET PoolFiles}

\* main, lines 250-251.
Init ==
    /\ fs \in Trees
    /\ pc = "loop"
    /\ pending = DOMAIN fs
    /\ updated_files = << >>
    /\ out = << >>
    /\ today \in Dates
    /\ run = 1
    /\ start = fs
    /\ visited = << >>
    /\ written = << >>
    /\ rendered = [f \in DOMAIN fs |-> None]
    /\ args = None
    /\ call = None

\* main, lines 253-257: one iteration of the for loop, on the file md_file that
\* rglob yields next (in any order).
ProcessFile(md_file) ==
    /\ pc = "loop"
    /\ md_file \in pending
    /\ \E res \in {add_frontmatter_to_file(PathOf(md_file), fs[md_file], today)} :
         LET relative == RelativeTo(PathOf(md_file), DocsDir)
         IN  /\ fs' = [fs EXCEPT ![md_file] = res.raw]
             /\ rendered' = [rendered EXCEPT ![md_file] = res.rendered]
             /\ IF res.updated
                THEN /\ updated_files' = Append(updated_files, relative)
                     /\ out' = Append(out, [kind |-> "check", text |-> relative])
                     /\ written' = Append(written, md_file)
                ELSE UNCHANGED <<updated_files, out, written>>
    /\ pending' = pending \ {md_file}
    /\ visited' = Append(visited, md_file)
    /\ UNCHANGED <<pc, today, run, start, args, call>>

\* main, lines 259-264: the loop is over; print the report and return.
Finish ==
    /\ pc = "loop"
    /\ pending = {}
    /\ out' = out \o Report(updated_files)
    /\ pc' = "done"
    /\ UNCHANGED <<fs, pending, updated_files, today, run, start, visited,
                   written, rendered, args, call>>

\* The script is run again over the tree the previous run left.
StartRun ==
    /\ pc = "done"
    /\ run < MaxRuns
    /\ run' = run + 1
    /\ pc' = "loop"
    /\ pending' = DOMAIN fs
    /\ updated_files' = << >>
    /\ out' = << >>
    /\ today' \in Dates
    /\ start' = fs
    /\ visited' = << >>
    /\ written' = << >>
    /\ rendered' = [f \in DOMAIN fs |-> None]
    /\ UNCHANGED <<fs, args, call>>

Next ==
    \/ \E md_file \in PoolFiles : ProcessFile(md_file)
    \/ Finish
    \/ StartRun

Spec == Init /\ [][Next]_vars

(***************************************************************************)
(* infer_tags called on its own, on any sample path and title               *)
(***************************************************************************)

\* Path components that hit no rule ("notes"), one rule ("guide", "zone",
\* "auth", "dev") or two ("devuser").
SampleWords == {"notes", "guide", "zone", "auth", "dev", "devuser"}

\* The paths of 1..n components drawn from SampleWords, without the suffix.
RECURSIVE SampleStems(_)
SampleStems(n) ==
    IF n <= 0 THEN {}
    ELSE SampleWords
           \cup {p \o "/" \o w : p \in SampleStems(n - 1), w \in SampleWords}

SamplePaths == {p \o ".md" : p \in SampleStems(MaxSegs)}

\* Titles: none, empty, one that hits the rule for guide, one that hits another.
SampleTitles == {None, Some(""), Some("Setup Guide"), Some("Security Notes")}

InitTags ==
    /\ fs = << >>
    /\ pc = "idle"
    /\ pending = {}
    /\ updated_files = << >>
    /\ out = << >>
    /\ today \in {d \in Dates : \A e \in Dates : ~ StrLess(e, d)}
    /\ run = 0
    /\ start = << >>
    /\ visited = << >>
    /\ written = << >>
    /\ rendered = << >>
    /\ args \in {Some([filepath |-> p, title |-> t]) : p \in SamplePaths, t \in SampleTitles}
    /\ call = None

\* infer_tags(filepath, title), lines 116-172; the history records the set
\* before the two size checks and after each of them.
CallInferTags ==
    /\ pc = "idle"
    /\ args # None
    /\ call = None
    /\ \E h \in {heuristic_tags(args[1].filepath, args[1].title)} :
         call' = Some([heuristic |-> h,
                       after_empty |-> add_documentation(h),
                       after_single |-> add_guide(add_documentation(h)),
                       result |-> infer_tags(args[1].filepath, args[1].title)])
    /\ UNCHANGED <<fs, pc, pending, updated_files, out, today, run, start,
                   visited, written, rendered, args>>

NextTags == CallInferTags

SpecTags == InitTags /\ [][NextTags]_vars

(***************************************************************************)
(* Properties                                                              *)
(***************************************************************************)

\* The first line of the bytes of a file, without its line end.
FirstLine(raw) ==
    LET e == FirstIndex(raw, {"\n", "\r"})
    IN  IF e = 0 THEN raw ELSE SubSeq(raw, 1, e - 1)

\* The first line of a file is the delimiter line: "---", which
\* has_frontmatter accepts between whitespace and before any line end.
DelimiterFirst(raw) == Strip(FirstLine(raw)) = "---"

\* The files this run has rewritten.
Rewritten == {f \in DOMAIN fs : rendered[f] # None}

\* The curated file of the pool.
Adr002 == "adr/002-three-tier-hierarchy.md"

\* The number of positions of xs that hold x.
Count(xs, x) == Cardinality({i \in 1..Len(xs) : xs[i] = x})

\* The variable parts of the console lines of one kind, in order.
IsCheck(line) == line.kind = "check"
IsCount(line) == line.kind = "count"
IsItem(line) == line.kind = "item"
Texts(lines) == [i \in 1..Len(lines) |-> lines[i].text]

\* C1: a file whose first line is the delimiter "---" keeps its bytes through
\* a run of main: it is not written, no console line names it, and the total
\* counts at most the files whose first line is not the delimiter.
C1_DelimitedFileUntouched ==
    \A f \in DOMAIN fs :
        DelimiterFirst(start[f]) =>
            /\ fs[f] = start[f]
            /\ Count(written, f) = 0
            /\ rendered[f] = None
            /\ Count(updated_files, f) = 0
            /\ \A i \in 1..Len(out) :
                   /\ out[i].kind \in {"check", "item"} => out[i].text # f
                   /\ out[i].kind = "count" =>
                          out[i].n <= Cardinality({g \in DOMAIN fs :
                                                      ~ DelimiterFirst(start[g])})

\* C1 witness: a run has ended that visited a file whose first line is
\* exactly "---" and rewrote another file.
C1_Witness ==
    /\ pc = "done"
    /\ written # << >>
    /\ \E f \in DOMAIN fs : FirstLine(start[f]) = "---" /\ Count(visited, f) = 1

\* C2: when a run of main has ended, the first line of every file is the
\* delimiter line, and
\* a later run over the same tree writes nothing, leaves every file as the
\* run before left it, and reports 0 updated files.
C2_SecondRunChangesNothing ==
    /\ pc = "done" => \A f \in DOMAIN fs : DelimiterFirst(fs[f])
    /\ run >= 2 =>
          /\ fs = start
          /\ written = << >>
          /\ updated_files = << >>
          /\ \A f \in DOMAIN fs : rendered[f] = None
          /\ pc = "done" => out = <<[kind |-> "count", n |-> 0]>>

\* C2 witness: a second run has ended over a tree in which the first run
\* rewrote a file (an empty one among them or not) and skipped another.
C2_Witness ==
    /\ run = 2
    /\ pc = "done"
    /\ \E f, g \in DOMAIN fs : fs[f] \notin SampleContents /\ fs[g] \in SampleContents

\* C3: a file whose first line is not the delimiter is written exactly once
\* by the run that visits it, and then holds the rendered block followed by
\* its original bytes, unaltered.
C3_BlockThenOriginal ==
    \A f \in DOMAIN fs :
        (~ DelimiterFirst(start[f]) /\ Count(visited, f) = 1) =>
            /\ Count(written, f) = 1
            /\ rendered[f] # None
            /\ fs[f] = rendered[f][1].text \o start[f]

\* xs is sorted by code point, without duplicates.
StrictlySorted(xs) == \A i \in 1..(Len(xs) - 1) : StrLess(xs[i], xs[i + 1])

\* C4: the tags rendered for a rewritten file are sorted, without duplicates
\* and at least two, from the curated table or from inference; for the curated
\* adr/002-three-tier-hierarchy.md they are adr, architecture, channels,
\* design, nostr in this order.
C4_TagsSorted ==
    \A f \in Rewritten :
        LET tags == rendered[f][1].meta.tags
        IN  /\ StrictlySorted(tags)
            /\ Len(tags) >= 2
            /\ f = Adr002 => tags = <<"adr", "architecture", "channels", "design", "nostr">>

\* C5: a rewritten file whose relative path is a key of METADATA_MAP gets the
\* title, description, category, tags and difficulty of its entry, whatever
\* it holds, and its block is the rendering of exactly these.
C5_CuratedVerbatim ==
    \A f \in Rewritten \cap DOMAIN METADATA_MAP :
        LET meta == rendered[f][1].meta
            entry == METADATA_MAP[f]
        IN  /\ meta.title = entry.title
            /\ meta.description = entry.description
            /\ meta.category = entry.category
            /\ meta.tags = entry.tags
            /\ meta.difficulty = Some(entry.difficulty)
            /\ rendered[f][1].text =
                 "---\ntitle: \"" \o entry.title
                   \o "\"\ndescription: \"" \o entry.description
                   \o "\"\ncategory: " \o entry.category
                   \o "\ntags: " \o ListRepr(entry.tags)
                   \o "\ndifficulty: " \o entry.difficulty
                   \o "\nlast-updated: " \o today \o "\n---\n\n"

\* C5 witness: the curated file was rewritten when it held a heading and a
\* paragraph of its own.
C5_Witness ==
    /\ Adr002 \in Rewritten
    /\ StartsWith(start[Adr002], "# Auth Setup\n\nHow to")

\* C6: a rewritten file that is not curated gets the category of the first
\* rule its path under the docs root matches: developer/auth-setup.md gets
\* reference by the developer rule, a file whose path under the root holds no
\* keyword gets the default reference.
C6_CategoryFromPathUnderRoot ==
    \A f \in Rewritten \ DOMAIN METADATA_MAP :
        /\ rendered[f][1].meta.category = infer_category(f)
        /\ f \in {"developer/auth-setup.md", "notes/misc.md"} =>
               rendered[f][1].meta.category = "reference"

\* C7: a rewritten file that is not curated gets the difficulty of the first
\* rule its path under the docs root matches: developer/auth-setup.md gets
\* intermediate, a file whose path under the root holds no keyword gets no
\* difficulty line.
C7_DifficultyFromPathUnderRoot ==
    \A f \in Rewritten \ DOMAIN METADATA_MAP :
        /\ rendered[f][1].meta.difficulty = infer_difficulty(f)
        /\ f = "developer/auth-setup.md" =>
               rendered[f][1].meta.difficulty = Some("intermediate")
        /\ f = "notes/misc.md" =>
               /\ rendered[f][1].meta.difficulty = None
               /\ ~ Contains(rendered[f][1].text, "\ndifficulty: ")

\* C8: the console holds one confirmation line per rewritten file, in the
\* order the files were discovered, and nothing else while the loop runs;
\* when main has returned they are followed by the count line, whose number
\* is the number of files this run rewrote, and, when that is not 0, by the
\* header and the rewritten files, each once, sorted by relative path.
C8_ConsoleOrder ==
    LET n == Len(written)
    IN  /\ written = SelectSeq(visited, LAMBDA f : fs[f] # start[f])
        /\ Len(out) >= n
        /\ Texts(SubSeq(out, 1, n)) = written
        /\ \A i \in 1..n : out[i].kind = "check"
        /\ pc = "loop" => Len(out) = n
        /\ pc = "done" =>
              /\ Len(out) = IF n = 0 THEN 1 ELSE 2 * n + 2
              /\ out[n + 1] = [kind |-> "count", n |-> n]
              /\ n > 0 =>
                    /\ out[n + 2] = [kind |-> "header"]
                    /\ \A i \in (n + 3)..Len(out) : out[i].kind = "item"
                    /\ StrictlySorted(Texts(SubSeq(out, n + 3, Len(out))))
                    /\ Range(Texts(SubSeq(out, n + 3, Len(out)))) = Range(written)

\* C8 witness: main has returned after rewriting two files it discovered in
\* the reverse of their sorted order.
C8_Witness ==
    /\ pc = "done"
    /\ Len(written) >= 2
    /\ StrLess(written[2], written[1])

\* C9: every rendered description has at most 200 characters and no
\* whitespace but single spaces between words, in the curated branch, the
\* extracted branch and the fallback "<title> documentation".
C9_DescriptionBounded ==
    \A f \in Rewritten :
        LET d == rendered[f][1].meta.description
        IN  /\ Len(d) <= DescLimit
            /\ CollapseWhitespace(d) = d
            /\ Strip(d) = d

====
